---------------------------- MODULE Spec2Model ----------------------------
(***************************************************************************)
(* The simulation core of "Pygame simulator/one vehicle control.py": the   *)
(* ego vehicle (EGO_Car, bicycle model), the six constant-velocity         *)
(* vehicles (O_Car) and the loop of Start.run with its end-of-tick         *)
(* termination test.                                                       *)
(*                                                                         *)
(* Arithmetic.  The program computes in floating point.  The model of the  *)
(* whole loop computes on an integer grid on which every linear operation  *)
(* of the program is exact: with hz ticks per second (a tick lasts one     *)
(* quantum of 1/hz s, or 0),                                               *)
(*     velocity      is counted in 1/VelScale           units/s,           *)
(*     acceleration  in hz/VelScale                     units/s^2,         *)
(*     position      in 1/(VelScale*hz)                 units,             *)
(*     steering      in 1/hz                            degrees,           *)
(*     angle         in whole degrees,                                     *)
(* so that v += a*dt, p += v*dt, a += 1*dt, steering += 30*dt and          *)
(* a = -v/dt are integer operations without remainder.  sin and cos are    *)
(* read from a four-digit table of whole degrees; the heading is rounded   *)
(* to a whole degree.  The question whether the coasting stop is exact in  *)
(* the program's own binary64 arithmetic is settled separately, in the     *)
(* binary64 model of coasting (CoastSpec) further down.                    *)
(*                                                                         *)
(* Input.  `pressed` (the key snapshot read at line 161), the QUIT/ESCAPE  *)
(* event and dt (clock.get_time()/1000) are the inputs of one iteration.   *)
(* Rendering and the log file do not feed back into the state.             *)
(***************************************************************************)
EXTENDS Integers, Sequences, FiniteSets, TLC

VARIABLES hz, pc, exit, outcome, pressed, dt,
          ecar, amu, car1, car2, car3, car4, car5,
          keyChanges, zeroTicks

vars == <<hz, pc, exit, outcome, pressed, dt, ecar, amu, car1, car2, car3, car4, car5,
          keyChanges, zeroTicks>>

---------------------------------------------------------------------------
(* Bounds of the exploration *)


\* number of initial x offsets of the ego vehicle drawn from [6, 8)
OffsetSteps == 3

\* how often the key snapshot may differ from the one of the tick before
MaxKeyChanges == 3

\* how many ticks of a run may have dt = 0
MaxZeroTicks == 1

---------------------------------------------------------------------------
(* Program constants *)

max_steering == 30
max_acceleration == 5
brake_deceleration == 5
free_deceleration == 1
length == 4
steering_rate == 30
ticks == 60

\* velocity grid: 1/3600 units/s represents 8.31 and 13.85 exactly and is
\* divisible by hz*hz for hz in {1, 2, 60}
VelScale == 60 * 60

\* 13.85 and 8.31 units/s on the velocity grid
max_velocity == (1385 * VelScale) \div 100
initial_velocity == (831 * VelScale) \div 100
other_velocity == (831 * VelScale) \div 100

\* one distance unit on the position grid, one units/s^2 on the acceleration grid
PosScale == VelScale * hz
AccScale == VelScale \div hz

---------------------------------------------------------------------------
(* Numeric helpers *)

Abs(n) == IF n < 0 THEN -n ELSE n

\* the clamp left out
ClampForgotten(lo, x, hi) == x

\* max(lo, min(x, hi))
Clamp(lo, x, hi) == IF x > hi THEN hi ELSE IF x < lo THEN lo ELSE x

\* a / b rounded to the nearest integer (b > 0)
RoundDiv(a, b) == (a + b \div 2) \div b

SinTable ==
  << 175, 349, 523, 698, 872, 1045, 1219, 1392, 1564, 1736, 1908, 2079, 2250,
     2419, 2588, 2756, 2924, 3090, 3256, 3420, 3584, 3746, 3907, 4067, 4226,
     4384, 4540, 4695, 4848, 5000, 5150, 5299, 5446, 5592, 5736, 5878, 6018,
     6157, 6293, 6428, 6561, 6691, 6820, 6947, 7071, 7193, 7314, 7431, 7547,
     7660, 7771, 7880, 7986, 8090, 8192, 8290, 8387, 8480, 8572, 8660, 8746,
     8829, 8910, 8988, 9063, 9135, 9205, 9272, 9336, 9397, 9455, 9511, 9563,
     9613, 9659, 9703, 9744, 9781, 9816, 9848, 9877, 9903, 9925, 9945, 9962,
     9976, 9986, 9994, 9998, 10000 >>

\* 10000 * sin(d degrees), d any whole number of degrees
SinDeg(d) ==
  LET r == d % 360
      q(k) == IF k = 0 THEN 0 ELSE SinTable[k]
  IN  IF r <= 90 THEN q(r)
      ELSE IF r <= 180 THEN q(180 - r)
      ELSE IF r <= 270 THEN -q(r - 180)
      ELSE -q(360 - r)

CosDeg(d) == SinDeg(d + 90)

---------------------------------------------------------------------------
(* The keyboard snapshot *)

Keys == [up : BOOLEAN, down : BOOLEAN, left : BOOLEAN, right : BOOLEAN]

NoKeys == [up |-> FALSE, down |-> FALSE, left |-> FALSE, right |-> FALSE]

\* a tick lasts 0 or one quantum of 1/hz s
DtSet == {0, 1}

\* the time grids of Spec, in ticks per second: a tick with dt > 0 lasts 1 s
CoarseRates == {1}

---------------------------------------------------------------------------
(* The ego vehicle *)

\* EGO_Car.__init__
EGO_Car(x, y) ==
  [x |-> x, y |-> y, vx |-> initial_velocity, angle |-> 90,
   acceleration |-> 0, steering |-> 0]

\* the acceleration policy with the brake key tested before the accelerate key
AccelerationPolicyBrakeFirst(e, keys, d) ==
  LET a == IF keys.down
             THEN IF e.vx > 0 THEN -(brake_deceleration * AccScale)
                               ELSE e.acceleration - d * (AccScale \div hz)
           ELSE IF keys.up
             THEN IF e.vx < 0 THEN brake_deceleration * AccScale
                               ELSE e.acceleration + d * (AccScale \div hz)
           ELSE IF Abs(e.vx) * hz > d * free_deceleration * VelScale
             THEN IF e.vx < 0 THEN free_deceleration * AccScale
                               ELSE -(free_deceleration * AccScale)
           ELSE IF d # 0 THEN -(e.vx \div d)
           ELSE e.acceleration
  IN  Clamp(-(max_acceleration * AccScale), a, max_acceleration * AccScale)

\* the acceleration policy without the coasting deceleration
AccelerationPolicyNoCoast(e, keys, d) ==
  LET a == IF keys.up
             THEN IF e.vx < 0 THEN brake_deceleration * AccScale
                               ELSE e.acceleration + d * (AccScale \div hz)
           ELSE IF keys.down
             THEN IF e.vx > 0 THEN -(brake_deceleration * AccScale)
                               ELSE e.acceleration - d * (AccScale \div hz)
           ELSE 0
  IN  Clamp(-(max_acceleration * AccScale), a, max_acceleration * AccScale)

\* lines 161-177: the acceleration chosen from the keys, then clamped
AccelerationPolicy(e, keys, d) ==
  LET a == IF keys.up
             THEN IF e.vx < 0 THEN brake_deceleration * AccScale
                               ELSE e.acceleration + d * (AccScale \div hz)
           ELSE IF keys.down
             THEN IF e.vx > 0 THEN -(brake_deceleration * AccScale)
                               ELSE e.acceleration - d * (AccScale \div hz)
           ELSE IF Abs(e.vx) * hz > d * free_deceleration * VelScale
             THEN IF e.vx < 0 THEN free_deceleration * AccScale
                               ELSE -(free_deceleration * AccScale)
           ELSE IF d # 0 THEN -(e.vx \div d)
           ELSE e.acceleration
  IN  Clamp(-(max_acceleration * AccScale), a, max_acceleration * AccScale)

\* lines 179-185: the steering chosen from the keys, then clamped
SteeringPolicy(e, keys, d) ==
  LET s == IF keys.right THEN e.steering - steering_rate * d
           ELSE IF keys.left THEN e.steering + steering_rate * d
           ELSE 0
  IN  Clamp(-(max_steering * hz), s, max_steering * hz)

\* lines 161-185
Control(e, keys, d) ==
  [e EXCEPT !.acceleration = AccelerationPolicy(e, keys, d),
            !.steering = SteeringPolicy(e, keys, d)]

\* the velocity integrated over a full quantum whatever dt is
IntegrateVelocityFixedStep(vx, a, d) == Clamp(-max_velocity, vx + a, max_velocity)

\* lines 55-56
IntegrateVelocity(vx, a, d) == Clamp(-max_velocity, vx + a * d, max_velocity)

\* lines 59-63 and 67: degrees(angular_velocity) * dt, in whole degrees
AngleStep(vx, steering, d) ==
  IF steering # 0
    THEN RoundDiv(RoundDiv(vx * SinDeg(steering \div hz), 10000) * 57296 * d,
                  1000 * VelScale * length * hz)
    ELSE 0

\* EGO_Car.update
EGO_Car_update(e, d) ==
  LET v == IntegrateVelocity(e.vx, e.acceleration, d)
  IN  [e EXCEPT !.vx = v,
                !.x = e.x + RoundDiv(v * CosDeg(e.angle), 10000) * d,
                !.y = e.y - RoundDiv(v * SinDeg(e.angle), 10000) * d,
                !.angle = e.angle + AngleStep(v, e.steering, d)]

---------------------------------------------------------------------------
(* The other vehicles *)

\* O_Car.__init__
O_Car(vel, x, y) == [x |-> x, y |-> y, vel |-> vel]

\* the update with the sign of dt dropped: the vehicle drives away
O_Car_updateAway(c, d) == [c EXCEPT !.y = c.y + c.vel * Abs(d)]

\* O_Car.update
O_Car_update(c, d) == [c EXCEPT !.y = c.y + c.vel * d]

---------------------------------------------------------------------------
(* The end-of-tick test, lines 224-236 *)

Exited(a) == a.y < 1 * PosScale

\* the proximity box with its borders counted in
NearInclusive(e, o) ==
  /\ -(4 * PosScale) <= e.y - o.y /\ e.y - o.y <= 4 * PosScale
  /\ -(2 * PosScale) <= e.x - o.x /\ e.x - o.x <= 2 * PosScale

Near(e, o) ==
  /\ -(4 * PosScale) < e.y - o.y /\ e.y - o.y < 4 * PosScale
  /\ -(2 * PosScale) < e.x - o.x /\ e.x - o.x < 2 * PosScale

OutOfCorridor(e) == 2 * e.x > 29 * PosScale \/ e.x < 0

Collides(e, a, c1, c2, c3, c4, c5) ==
  Near(e, a) \/ Near(e, c3) \/ Near(e, c2) \/ Near(e, c1) \/ Near(e, c4) \/ Near(e, c5)

\* the end condition without its corridor clause
EndConditionNoCorridor(e, a, c1, c2, c3, c4, c5) ==
  Exited(a) \/ Collides(e, a, c1, c2, c3, c4, c5)

EndCondition(e, a, c1, c2, c3, c4, c5) ==
  Exited(a) \/ Collides(e, a, c1, c2, c3, c4, c5) \/ OutOfCorridor(e)

\* the report deciding on the crash before the exit
ReportCrashFirst(e, a, c1, c2, c3, c4, c5) ==
  IF Collides(e, a, c1, c2, c3, c4, c5) \/ OutOfCorridor(e)
    THEN "Crash" ELSE "End of the round"

\* lines 232-235: what is printed when the end condition holds
Report(e, a, c1, c2, c3, c4, c5) == IF Exited(a) THEN "End of the round" ELSE "Crash"

\* the loop without the break of line 236
LoopWithoutBreak(end, ex) == ~ex

\* line 151 and the break of line 236: whether another iteration follows
LoopContinues(end, ex) == ~end /\ ~ex

---------------------------------------------------------------------------
(* The loop *)

InitialOffsets ==
  { 6 * PosScale + (2 * PosScale * k) \div OffsetSteps : k \in 0 .. OffsetSteps - 1 }

Scenario(h) ==
  /\ hz = h
  /\ pc = "loop"
  /\ exit = FALSE
  /\ outcome = "Running"
  /\ pressed = NoKeys
  /\ dt = 0
  /\ keyChanges = 0
  /\ zeroTicks = 0
  /\ ecar \in { EGO_Car(x, 64 * PosScale) : x \in InitialOffsets }
  /\ amu = O_Car(other_velocity, 7 * PosScale, 70 * PosScale)
  /\ car3 = O_Car(other_velocity, 7 * PosScale, 57 * PosScale)
  /\ car1 = O_Car(other_velocity, 3 * PosScale, 89 * PosScale)
  /\ car2 = O_Car(other_velocity, (23 * PosScale) \div 2, 20 * PosScale)
  /\ car4 = O_Car(other_velocity, 3 * PosScale, 57 * PosScale)
  /\ car5 = O_Car(other_velocity, (23 * PosScale) \div 2, 57 * PosScale)

Init == \E h \in CoarseRates : Scenario(h)

\* one iteration of the while loop of Start.run
Tick(keys, d, quit) ==
  /\ pc = "loop"
  /\ keys # pressed => keyChanges < MaxKeyChanges
  /\ d = 0 => zeroTicks < MaxZeroTicks
  /\ keyChanges' = IF keys # pressed THEN keyChanges + 1 ELSE keyChanges
  /\ zeroTicks' = IF d = 0 THEN zeroTicks + 1 ELSE zeroTicks
  /\ LET e == EGO_Car_update(Control(ecar, keys, d), d)
         a == O_Car_update(amu, -d)
         c1 == O_Car_update(car1, -d)
         c2 == O_Car_update(car2, -d)
         c3 == O_Car_update(car3, -d)
         c4 == O_Car_update(car4, -d)
         c5 == O_Car_update(car5, -d)
         end == EndCondition(e, a, c1, c2, c3, c4, c5)
     IN  /\ ecar' = e
         /\ amu' = a
         /\ car1' = c1
         /\ car2' = c2
         /\ car3' = c3
         /\ car4' = c4
         /\ car5' = c5
         /\ exit' = (exit \/ quit)
         /\ outcome' = IF end THEN Report(e, a, c1, c2, c3, c4, c5) ELSE outcome
         /\ pc' = IF LoopContinues(end, exit \/ quit) THEN "loop" ELSE "done"
  /\ pressed' = keys
  /\ dt' = d
  /\ UNCHANGED hz

\* an iteration whose dt is 0: the first one, before clock.tick has run
ZeroTick == \E keys \in Keys, quit \in BOOLEAN : Tick(keys, 0, quit)

\* an iteration whose dt is positive
PositiveTick == \E keys \in Keys, quit \in BOOLEAN : Tick(keys, 1, quit)

Next == ZeroTick \/ PositiveTick

Spec == Init /\ [][Next]_vars

\* clock.tick(60) at line 278 lets time pass between two iterations; the runs
\* that start at the smallest offset
FairInit == Init /\ ecar.x = 6 * PosScale

FairSpec == FairInit /\ [][Next]_vars /\ WF_vars(PositiveTick)

(* The default scenario at the nominal frame rate, no key ever pressed *)

DefaultInit == Scenario(ticks)

DefaultTick == Tick(NoKeys, 1, FALSE)

DefaultSpec == DefaultInit /\ [][DefaultTick]_vars

---------------------------------------------------------------------------
(* Binary64 arithmetic: the float of lines 55 and 172-176.                 *)
(* A natural number is the sequence of its digits in base 2^15, lowest     *)
(* first, without leading zeros.  A float is [neg, m, e] of value          *)
(* (-1)^neg * m * 2^e with m of exactly 53 bits, or of fewer bits and      *)
(* e = -1074 (subnormal), or m = <<>> (zero, whose sign is not kept).      *)
(* Every operation rounds to nearest, ties to even; overflow does not      *)
(* occur at these magnitudes.                                              *)

Base == 2^15

Max(a, b) == IF a > b THEN a ELSE b

Min(a, b) == IF a < b THEN a ELSE b

RECURSIVE Digits(_)
Digits(n) == IF n = 0 THEN <<>> ELSE <<n % Base>> \o Digits(n \div Base)

RECURSIVE Trim(_)
Trim(b) ==
  IF b = <<>> THEN <<>>
  ELSE IF b[Len(b)] = 0 THEN Trim(SubSeq(b, 1, Len(b) - 1)) ELSE b

Rest(b) == IF b = <<>> THEN <<>> ELSE Tail(b)

Low(b) == IF b = <<>> THEN 0 ELSE Head(b)

\* a + b + c
RECURSIVE BAddC(_, _, _)
BAddC(a, b, c) ==
  IF a = <<>> /\ b = <<>> THEN (IF c = 0 THEN <<>> ELSE <<c>>)
  ELSE LET t == Low(a) + Low(b) + c
       IN  <<t % Base>> \o BAddC(Rest(a), Rest(b), t \div Base)

BAdd(a, b) == BAddC(a, b, 0)

\* a - b - c, for a >= b + c; the leading zeros are left in
RECURSIVE BSubC(_, _, _)
BSubC(a, b, c) ==
  IF a = <<>> THEN <<>>
  ELSE LET t == Low(a) - Low(b) - c
       IN  <<t % Base>> \o BSubC(Rest(a), Rest(b), IF t < 0 THEN 1 ELSE 0)

BSub(a, b) == Trim(BSubC(a, b, 0))

\* a < b among numbers of the same length, compared from the highest digit
RECURSIVE BLessAt(_, _, _)
BLessAt(a, b, i) ==
  IF i = 0 THEN FALSE
  ELSE IF a[i] # b[i] THEN a[i] < b[i]
  ELSE BLessAt(a, b, i - 1)

BLess(a, b) ==
  IF Len(a) # Len(b) THEN Len(a) < Len(b) ELSE BLessAt(a, b, Len(a))

\* a * k + c for a digit k
RECURSIVE MulDigit(_, _, _)
MulDigit(a, k, c) ==
  IF a = <<>> THEN (IF c = 0 THEN <<>> ELSE <<c>>)
  ELSE LET t == Head(a) * k + c
       IN  <<t % Base>> \o MulDigit(Tail(a), k, t \div Base)

\* b * Base^k
ShlDigits(b, k) == IF b = <<>> THEN <<>> ELSE [i \in 1 .. k |-> 0] \o b

RECURSIVE BMul(_, _)
BMul(a, b) ==
  IF a = <<>> \/ b = <<>> THEN <<>>
  ELSE BAdd(Trim(MulDigit(a, Head(b), 0)), ShlDigits(BMul(a, Tail(b)), 1))

\* the number of bits of a
BitLen(a) ==
  IF a = <<>> THEN 0
  ELSE 15 * (Len(a) - 1)
         + (CHOOSE n \in 1 .. 15 : a[Len(a)] < 2^n /\ a[Len(a)] >= 2^(n - 1))

\* bit j of a, the lowest being bit 1
Bit(a, j) ==
  IF j < 1 \/ j > 15 * Len(a) THEN 0
  ELSE (a[(j - 1) \div 15 + 1] \div 2^((j - 1) % 15)) % 2

\* a * 2^k
Shl(a, k) == ShlDigits(Trim(MulDigit(a, 2^(k % 15), 0)), k \div 15)

\* a \div 2^k
Shr(a, k) ==
  IF k >= BitLen(a) THEN <<>>
  ELSE LET d == SubSeq(a, k \div 15 + 1, Len(a))
           p == 2^(k % 15)
       IN  Trim([i \in 1 .. Len(d) |->
                   d[i] \div p
                     + (IF i < Len(d) THEN (d[i + 1] % p) * (Base \div p)
                                      ELSE 0)])

\* the digit r \div d for r < d * Base and a d whose highest digit is at
\* least Base / 2: the estimate from the highest digits is at most 2 too big
DivDigit(r, d) ==
  LET n == Len(d)
      top == (IF Len(r) > n THEN r[n + 1] * Base ELSE 0)
               + (IF Len(r) >= n THEN r[n] ELSE 0)
      c == Min(top \div d[n], Base - 1)
  IN  IF ~BLess(r, Trim(MulDigit(d, c, 0))) THEN c
      ELSE IF ~BLess(r, Trim(MulDigit(d, c - 1, 0))) THEN c - 1
      ELSE c - 2

\* long division of n by d, from digit i of n downwards
RECURSIVE DivFrom(_, _, _, _)
DivFrom(n, d, i, st) ==
  IF i = 0 THEN [q |-> Trim(st.q), r |-> st.r]
  ELSE LET r1 == Trim(<<n[i]>> \o st.r)
           c == DivDigit(r1, d)
       IN  DivFrom(n, d, i - 1,
                   [q |-> <<c>> \o st.q,
                    r |-> BSub(r1, Trim(MulDigit(d, c, 0)))])

\* the quotient n \div d, and whether n % d = 0; n and d are scaled alike
\* to bring the highest digit of d to Base / 2 or more
BDivMod(n, d) ==
  LET z == 15 * Len(d) - BitLen(d)
      st == DivFrom(Shl(n, z), Shl(d, z), Len(Shl(n, z)),
                    [q |-> <<>>, r |-> <<>>])
  IN  [q |-> st.q, exact |-> st.r = <<>>]

Zero64 == [neg |-> FALSE, m |-> <<>>, e |-> 0]

\* the float nearest to (-1)^neg * M * 2^E
Round64(neg, M, E) ==
  LET L == BitLen(M)
      k == Max(Max(L - 53, -1074 - E), 0)
      q == Shr(M, k)
      half == k >= 1 /\ Bit(M, k) = 1
      below == \E i \in 1 .. Min(k - 1, L) : Bit(M, i) = 1
      up == half /\ (below \/ Bit(q, 1) = 1)
      q1 == IF up THEN BAdd(q, <<1>>) ELSE q
      over == BitLen(q1) = 54
      m1 == IF over THEN Shr(q1, 1) ELSE q1
      e1 == IF over THEN E + k + 1 ELSE E + k
      s == Min(53 - BitLen(m1), e1 + 1074)
  IN  IF m1 = <<>> THEN Zero64
      ELSE [neg |-> neg, m |-> Shl(m1, s), e |-> e1 - s]

\* float(n) for an int n
Float64(n) == Round64(n < 0, Digits(Abs(n)), 0)

Neg64(x) == IF x.m = <<>> THEN x ELSE [x EXCEPT !.neg = ~x.neg]

Abs64(x) == [x EXCEPT !.neg = FALSE]

\* |x| < |y|
MagLess64(x, y) ==
  IF y.m = <<>> THEN FALSE
  ELSE IF x.m = <<>> THEN TRUE
  ELSE IF x.e + BitLen(x.m) # y.e + BitLen(y.m)
         THEN x.e + BitLen(x.m) < y.e + BitLen(y.m)
  ELSE BLess(Shl(x.m, x.e - Min(x.e, y.e)), Shl(y.m, y.e - Min(x.e, y.e)))

Less64(x, y) ==
  IF x.neg /\ ~y.neg THEN TRUE
  ELSE IF ~x.neg /\ y.neg THEN FALSE
  ELSE IF x.neg THEN MagLess64(y, x)
  ELSE MagLess64(x, y)

Mul64(x, y) ==
  IF x.m = <<>> \/ y.m = <<>> THEN Zero64
  ELSE Round64(x.neg # y.neg, BMul(x.m, y.m), x.e + y.e)

\* x / y for y # 0: 60 bits of quotient and more, and a sticky lowest bit
Div64(x, y) ==
  IF x.m = <<>> THEN Zero64
  ELSE LET s == 60 + BitLen(y.m) - BitLen(x.m)
           d == BDivMod(Shl(x.m, s), y.m)
           sticky == IF d.exact THEN 0 ELSE 1
       IN  Round64(x.neg # y.neg, BAddC(d.q, d.q, sticky), x.e - y.e - s - 1)

\* x + y; an operand more than 64 binary places below the other only
\* decides the rounding
Add64(x, y) ==
  IF x.m = <<>> THEN y
  ELSE IF y.m = <<>> THEN x
  ELSE LET hi == IF MagLess64(x, y) THEN y ELSE x
           lo0 == IF MagLess64(x, y) THEN x ELSE y
           lo == IF hi.e - lo0.e > 64
                   THEN [neg |-> lo0.neg, m |-> <<1>>, e |-> hi.e - 64]
                   ELSE lo0
           e == Min(hi.e, lo.e)
           H == Shl(hi.m, hi.e - e)
           W == Shl(lo.m, lo.e - e)
       IN  IF hi.neg = lo.neg THEN Round64(hi.neg, BAdd(H, W), e)
           ELSE Round64(hi.neg, BSub(H, W), e)

\* max(lo, min(x, hi))
Clamp64(lo, x, hi) ==
  LET t == IF Less64(hi, x) THEN hi ELSE x
  IN  IF Less64(lo, t) THEN t ELSE lo

---------------------------------------------------------------------------
(* Coasting in binary64: the longitudinal state of the ego vehicle while   *)
(* neither K_UP nor K_DOWN is held, as the interpreter computes it.        *)

\* the frame rates of the coasting runs
CoastRates == {40, 50}

\* clock.get_time() / 1000 for a frame of ms milliseconds
FrameTime64(ms) == Div64(Float64(ms), Float64(1000))

\* the literal 8.31
initial_velocity64 == Div64(Float64(831), Float64(100))

\* the literal 13.85
max_velocity64 == Div64(Float64(1385), Float64(100))

\* the else branch of the acceleration policy, and the clamp after it
CoastAcceleration64(v, a, d) ==
  LET b == IF Less64(Mul64(d, Float64(free_deceleration)), Abs64(v))
             THEN IF v.neg THEN Float64(free_deceleration)
                           ELSE Neg64(Float64(free_deceleration))
             ELSE IF d # Zero64 THEN Neg64(Div64(v, d)) ELSE a
  IN  Clamp64(Float64(-max_acceleration), b, Float64(max_acceleration))

\* velocity += (acceleration * dt, 0), and the clamp after it
IntegrateVelocity64(v, a, d) ==
  Clamp64(Neg64(max_velocity64), Add64(v, Mul64(a, d)), max_velocity64)

CoastInit ==
  /\ hz \in CoastRates
  /\ pc = "loop"
  /\ exit = FALSE
  /\ outcome = "Running"
  /\ pressed = NoKeys
  /\ dt = Zero64
  /\ keyChanges = 0
  /\ zeroTicks = 0
  /\ ecar = [EGO_Car(6 * PosScale, 64 * PosScale)
               EXCEPT !.vx = initial_velocity64, !.acceleration = Zero64]
  /\ amu = O_Car(other_velocity, 7 * PosScale, 70 * PosScale)
  /\ car3 = O_Car(other_velocity, 7 * PosScale, 57 * PosScale)
  /\ car1 = O_Car(other_velocity, 3 * PosScale, 89 * PosScale)
  /\ car2 = O_Car(other_velocity, (23 * PosScale) \div 2, 20 * PosScale)
  /\ car4 = O_Car(other_velocity, 3 * PosScale, 57 * PosScale)
  /\ car5 = O_Car(other_velocity, (23 * PosScale) \div 2, 57 * PosScale)

\* the longitudinal part of one iteration of the loop with no key held
CoastTick(d) ==
  /\ pc = "loop"
  /\ LET a == CoastAcceleration64(ecar.vx, ecar.acceleration, d)
     IN  ecar' = [ecar EXCEPT !.acceleration = a,
                              !.vx = IntegrateVelocity64(ecar.vx, a, d)]
  /\ dt' = d
  /\ UNCHANGED <<hz, pc, exit, outcome, pressed, amu, car1, car2, car3, car4,
                 car5, keyChanges, zeroTicks>>

CoastZeroTick == CoastTick(Zero64)

CoastFrameTick == CoastTick(FrameTime64(1000 \div hz))

CoastNext == CoastZeroTick \/ CoastFrameTick

CoastSpec == CoastInit /\ [][CoastNext]_vars

---------------------------------------------------------------------------
(* Properties of the loop *)

Others == {amu, car1, car2, car3, car4, car5}

\* |ego.y - other.y| < 4 and |ego.x - other.x| < 2
InBox(o) == Abs(ecar.y - o.y) < 4 * PosScale /\ Abs(ecar.x - o.x) < 2 * PosScale

AnyInBox == \E o \in Others : InBox(o)

\* ego.x > 14.5 or ego.x < 0
Outside == 2 * ecar.x > 29 * PosScale \/ ecar.x < 0

PriorityExited == amu.y < PosScale

\* C1: after every tick |velocity.x| <= 13.85, |steering| <= 30 and
\* |acceleration| <= 5, whatever keys were held and whatever dt was.
C1_Bounded ==
  /\ 100 * Abs(ecar.vx) <= 1385 * VelScale
  /\ Abs(ecar.steering) <= 30 * hz
  /\ Abs(ecar.acceleration) * hz <= 5 * VelScale

\* a tick has run the velocity and the steering into their limits
C1_AtLimits ==
  /\ 100 * ecar.vx = 1385 * VelScale
  /\ Abs(ecar.steering) = 30 * hz
  /\ dt = 1

\* C2: whenever the priority vehicle's y is below 1 at the end of a tick the
\* run ends as 'End of the round', also when the ego is inside a proximity
\* box or outside the corridor in that same tick.
C2_ExitWins == PriorityExited => (outcome = "End of the round" /\ pc = "done")

\* the priority vehicle has exited in the tick in which the ego is inside a box
C2_ExitWhileInBox == PriorityExited /\ AnyInBox /\ pc = "done"

C6_Absorbing == [][outcome # "Running" => UNCHANGED vars]_vars

\* the loop has ended with an outcome
C6_Ended == pc = "done" /\ outcome = "Crash" /\ ~exit

\* what a tick with dt = 0 leaves alone: every pose and the ego's velocity
ZeroTickKeeps ==
  /\ ecar'.x = ecar.x /\ ecar'.y = ecar.y /\ ecar'.angle = ecar.angle
  /\ ecar'.vx = ecar.vx
  /\ <<amu, car1, car2, car3, car4, car5>>' = <<amu, car1, car2, car3, car4, car5>>

\* C8 as stated: a tick with dt = 0 changes neither a pose nor the ego's
\* velocity nor the ego's acceleration.
C8_ZeroTickNoOp ==
  [][dt' = 0 => (ZeroTickKeeps /\ ecar'.acceleration = ecar.acceleration)]_vars

\* C8 as amended: a tick with dt = 0 changes no pose and not the ego's
\* velocity, and the outcome is the one of the unchanged poses; the ego's
\* acceleration is set by the keys: to +5 (accelerate held, velocity.x < 0),
\* to -5 (brake held without accelerate, velocity.x > 0), to -1 or +1 against
\* the motion (neither held, velocity.x # 0), and is unchanged otherwise.
C8_ZeroTickKeepsPoses ==
  [][dt' = 0 =>
       /\ ZeroTickKeeps
       /\ outcome' = outcome
       /\ ecar'.acceleration * hz =
            IF pressed'.up
              THEN IF ecar.vx < 0 THEN 5 * VelScale ELSE ecar.acceleration * hz
            ELSE IF pressed'.down
              THEN IF ecar.vx > 0 THEN -5 * VelScale ELSE ecar.acceleration * hz
            ELSE IF ecar.vx > 0 THEN -VelScale
            ELSE IF ecar.vx < 0 THEN VelScale
            ELSE ecar.acceleration * hz]_vars

\* the first tick, dt = 0, has set the acceleration from 0 to -5
C8_ZeroTickBraked ==
  /\ dt = 0 /\ zeroTicks = 1
  /\ amu.y = 70 * PosScale
  /\ ecar.acceleration * hz = -5 * VelScale

\* C9: with accelerate and brake both held only the accelerate policy is
\* applied; with steer-right and steer-left both held only steer-right is.
C9_Precedence ==
  [][/\ (pressed'.up /\ pressed'.down) =>
          ecar'.acceleration =
            Clamp(-(5 * AccScale),
                  IF ecar.vx < 0 THEN 5 * AccScale
                                 ELSE ecar.acceleration + dt' * (AccScale \div hz),
                  5 * AccScale)
     /\ (pressed'.right /\ pressed'.left) =>
          ecar'.steering = Clamp(-(30 * hz), ecar.steering - 30 * dt', 30 * hz)]_vars

\* all four keys were held in a tick that ramped the acceleration up and
\* steered to the right
C9_AllKeysHeld ==
  /\ pressed.up /\ pressed.down /\ pressed.left /\ pressed.right
  /\ dt = 1
  /\ ecar.acceleration > 0
  /\ ecar.steering < 0
\* C7: every tick with dt > 0 moves the priority vehicle to a strictly
\* smaller y and leaves its x and its velocity alone; the tick that takes its
\* y below 1 ends the run as 'End of the round'; and while such ticks keep
\* occurring the loop ends, whatever keys are held.
C7_Terminates ==
  /\ [][dt' = 1 => (amu'.y < amu.y /\ amu'.x = amu.x /\ amu'.vel = amu.vel)]_vars
  /\ [][amu'.y < PosScale => (outcome' = "End of the round" /\ pc' = "done")]_vars
  /\ <>(outcome # "Running" \/ exit)

\* the round completed with the ego inside the corridor and away from the others
C7_Completed ==
  /\ outcome = "End of the round" /\ pc = "done"
  /\ ~AnyInBox /\ ~Outside /\ ~exit

\* C10: in the default scenario at dt = 1/60 with no key ever held the
\* priority vehicle never gets below y = 1: the run goes on while it is 4 or
\* more behind the ego and ends as 'Crash' with the priority vehicle inside
\* the ego's proximity box.
C10_DefaultEndsInCrash ==
  /\ ~PriorityExited
  /\ outcome # "End of the round"
  /\ pc = "loop" => (outcome = "Running" /\ amu.y - ecar.y >= 4 * PosScale)
  /\ pc = "done" => (outcome = "Crash" /\ InBox(amu))

\* the default run has ended with the priority vehicle inside the box
C10_CrashedIntoPriority ==
  /\ pc = "done" /\ outcome = "Crash" /\ InBox(amu)
  /\ hz = 60 /\ pressed = NoKeys
  /\ ecar.vx < (831 * VelScale) \div 100

\* C5: from one tick to the next, while neither accelerate nor brake is held,
\* the velocity never changes sign, its magnitude never grows, and once it
\* is exactly 0 it stays 0
C5_CoastsToRest ==
  [][/\ ~(ecar.vx # Zero64 /\ ecar'.vx # Zero64 /\ ecar.vx.neg # ecar'.vx.neg)
     /\ ~MagLess64(ecar.vx, ecar'.vx)
     /\ ecar.vx = Zero64 => ecar'.vx = Zero64]_vars

=======================================================================
